---- MODULE Spec2Model ----
(***************************************************************************)
(* Model of the Rashed server: the REST routes of server/routes.ts, the    *)
(* DatabaseStorage accessors of server/storage.ts, the completion client   *)
(* of server/openai.ts and the multer upload pipeline configured in        *)
(* registerRoutes.                                                         *)
(*                                                                         *)
(* Strings that the code takes apart (file names, extensions) are          *)
(* sequences of one-character strings; error texts are sequences of        *)
(* segments, the outermost wrapper first.                                  *)
(***************************************************************************)
EXTENDS Integers, Sequences, FiniteSets

\* ------------------------------------------------------------------ bounds
\* messages one session holds, two counted for each chat request in flight
MaxHistory == 4
\* rows a table holds before the create routes stop adding to it
MaxRows == 3
\* rows the storage-layer specification adds to the seed rows
MaxInserts == 2
\* last millisecond of Date.now() the chat and the file specifications reach
MaxClock == 4
\* files the file specification keeps in the uploads directory
MaxFiles == 2

\* ------------------------------------------------------- program constants
\* multer limits.fileSize: 10 * 1024 * 1024
FileSizeLimit == 10485760
\* default of getActivities / of the limit query parameter
DefaultActivityLimit == 20
\* limit handed to getRecentProjects
RecentLimit == 5

\* ------------------------------------------------------------ input domains
Sessions == {"sA", "sB"}
Contents == {"hello"}
NoContent == ""
Null == "null"
NullId == 0
NoMetadata == [none |-> TRUE]
NoResponse ==
  [route |-> "", sess |-> "", user |-> 0, authed |-> FALSE, input |-> "null", by |-> "",
   status |-> 0, message |-> "", error |-> <<>>, body |-> "null", apiCalls |-> 0,
   storageCalls |-> <<>>]
Random == {7}

\* ---------------------------------------------------------------- strings
RECURSIVE numToString(_)
\* Number to its decimal digits (Date.now() + '-' + ... string concatenation).
numToString(n) ==
  LET d == <<"0","1","2","3","4","5","6","7","8","9">>
  IN IF n < 10 THEN <<d[n + 1]>> ELSE numToString(n \div 10) \o <<d[(n % 10) + 1]>>

\* String.prototype.toLowerCase on one character.
LowerChar(c) ==
  CASE c = "J" -> "j" [] c = "S" -> "s" [] c = "M" -> "m" [] c = "D" -> "d"
    [] c = "T" -> "t" [] c = "X" -> "x" [] c = "E" -> "e" [] OTHER -> c

toLowerCase(str) == [i \in 1..Len(str) |-> LowerChar(str[i])]

\* Index of the last '.' of a name, 0 when there is none.
LastDot(str) ==
  LET dots == {i \in 1..Len(str) : str[i] = "."}
  IN IF dots = {} THEN 0 ELSE CHOOSE i \in dots : \A j \in dots : j <= i

\* path.extname: from the last '.' to the end; empty when there is no '.'
\* or the only '.' is the first character.
extname(str) ==
  LET i == LastDot(str)
  IN IF i <= 1 THEN <<>> ELSE SubSeq(str, i, Len(str))

RECURSIVE split(_, _)
\* String.prototype.split(sep): the pieces between the separators.
split(str, sep) ==
  LET hits == {i \in 1..Len(str) : str[i] = sep}
  IN IF hits = {} THEN <<str>>
     ELSE LET i == CHOOSE h \in hits : \A j \in hits : h <= j
          IN <<SubSeq(str, 1, i - 1)>> \o split(SubSeq(str, i + 1, Len(str)), sep)

RECURSIVE join(_, _)
\* Array.prototype.join(sep).
join(parts, sep) ==
  IF Len(parts) = 0 THEN <<>>
  ELSE IF Len(parts) = 1 THEN parts[1]
  ELSE parts[1] \o <<sep>> \o join(Tail(parts), sep)

\* Array.prototype.slice(n).
slice(arr, n) == IF n >= Len(arr) THEN <<>> ELSE SubSeq(arr, n + 1, Len(arr))

\* allowedTypes of the multer fileFilter.
allowedTypes ==
  { <<".", "j", "s">>, <<".", "j", "s", "x">>, <<".", "t", "s">>, <<".", "t", "s", "x">>,
    <<".", "p", "y">>, <<".", "j", "a", "v", "a">>, <<".", "c">>, <<".", "c", "p", "p">>,
    <<".", "c", "s">>, <<".", "p", "h", "p">>, <<".", "g", "o">>, <<".", "r", "b">>,
    <<".", "r", "s">>,
    <<".", "j", "s", "o", "n">>, <<".", "c", "s", "v">>, <<".", "x", "m", "l">>,
    <<".", "y", "a", "m", "l">>, <<".", "y", "m", "l">>,
    <<".", "h", "t", "m", "l">>, <<".", "c", "s", "s">>, <<".", "s", "c", "s", "s">>,
    <<".", "s", "a", "s", "s">>, <<".", "l", "e", "s", "s">>,
    <<".", "m", "d">>, <<".", "t", "x", "t">>, <<".", "p", "d", "f">>,
    <<".", "j", "p", "g">>, <<".", "j", "p", "e", "g">>, <<".", "p", "n", "g">>,
    <<".", "g", "i", "f">>, <<".", "s", "v", "g">> }

\* Variant: the filter accepts every file.
fileFilterAcceptAll(originalname) == TRUE

\* multer fileFilter: accept when the lower-cased extension is allowed.
fileFilter(originalname) == toLowerCase(extname(originalname)) \in allowedTypes

\* multer diskStorage filename callback.
filename(nowMs, rnd, originalname) ==
  numToString(nowMs) \o <<"-">> \o numToString(rnd) \o <<"-">> \o originalname

\* ------------------------------------------------------------ relational store
Tables ==
  {"users", "projects", "deployments", "environments", "integrations",
   "activities", "approvals", "logs"}

\* Columns of the pgTable definitions of the schema.
Columns(t) ==
  CASE t = "users" -> {"id", "username", "password", "name", "createdAt"}
    [] t = "projects" -> {"id", "name", "type", "description", "techStack", "createdAt", "userId"}
    [] t = "deployments" -> {"id", "projectId", "environment", "status", "logs", "deployedAt", "deployedBy"}
    [] t = "environments" -> {"id", "name", "type", "config", "status", "lastDeployed"}
    [] t = "integrations" -> {"id", "name", "type", "config", "status", "lastUsed", "requestCount"}
    [] t = "activities" -> {"id", "type", "description", "projectId", "timestamp", "metadata"}
    [] t = "approvals" -> {"id", "title", "description", "type", "priority", "status", "createdAt", "metadata"}
    [] t = "logs" -> {"id", "type", "message", "timestamp", "metadata"}

\* Columns declared .notNull() (the serial id has a default).
NotNullColumns(t) ==
  CASE t = "users" -> {"username", "password"}
    [] t = "projects" -> {"name", "type"}
    [] t = "deployments" -> {"environment", "status"}
    [] t = "environments" -> {"name", "type", "status"}
    [] t = "integrations" -> {"name", "type", "status"}
    [] t = "activities" -> {"type", "description"}
    [] t = "approvals" -> {"title", "description", "type", "priority", "status"}
    [] t = "logs" -> {"type", "message"}

\* Value of a column the insert does not supply: defaultNow() for the
\* creation timestamps, default(0) for requestCount, NULL otherwise.
ColumnDefault(t, c, nowMs) ==
  IF c \in {"createdAt", "deployedAt", "timestamp"} THEN nowMs
  ELSE IF c \in {"requestCount", "projectId", "userId", "lastDeployed", "lastUsed"} THEN NullId
  ELSE IF c \in {"metadata", "config"} THEN NoMetadata
  ELSE Null

\* NULL in a text column (every .notNull() column of the schema but id is text).
IsNull(v) == v = Null

Ids(rows) == {rows[i].id : i \in 1..Len(rows)}

\* References declared with .references(): the referenced table per column.
ForeignKeyOk(d, t, row) ==
  /\ (t = "projects" /\ row.userId # NullId) => row.userId \in Ids(d.users)
  /\ (t \in {"deployments", "activities"} /\ row.projectId # NullId)
        => row.projectId \in Ids(d.projects)

Ok(value, d) == [threw |-> FALSE, error |-> <<>>, value |-> value, db |-> d]
Throw(error, d) == [threw |-> TRUE, error |-> error, value |-> Null, db |-> d]

\* db.insert(table).values(values).returning(): one row; the serial id is
\* drawn from the sequence unless the values carry an id of their own.
Insert(d, t, values, nowMs) ==
  LET ownId == "id" \in DOMAIN values
      id == IF ownId THEN values.id ELSE d.serial[t] + 1
      row == [c \in Columns(t) |->
                IF c = "id" THEN id
                ELSE IF c \in DOMAIN values THEN values[c]
                ELSE ColumnDefault(t, c, nowMs)]
      serial == IF ownId THEN d.serial ELSE [d.serial EXCEPT ![t] = id]
  IN IF \E c \in NotNullColumns(t) : IsNull(row[c])
       THEN Throw(<<"null value violates not-null constraint">>, d)
     ELSE IF id \in Ids(d[t])
       THEN Throw(<<"duplicate key value violates unique constraint">>,
                  [d EXCEPT !.serial = serial])
     ELSE IF ~ForeignKeyOk(d, t, row)
       THEN Throw(<<"violates foreign key constraint">>, [d EXCEPT !.serial = serial])
     ELSE Ok(row, [d EXCEPT ![t] = Append(@, row), !.serial = serial])

\* Variant: the table is left holding the updated rows only.
UpdateKeepingHits(d, t, id, data) ==
  LET cols == DOMAIN data \cap Columns(t)
      hit == {i \in 1..Len(d[t]) : d[t][i].id = id}
      set(row) == [c \in Columns(t) |-> IF c \in cols THEN data[c] ELSE row[c]]
      rows == [i \in 1..Len(d[t]) |-> IF i \in hit THEN set(d[t][i]) ELSE d[t][i]]
  IN IF cols = {} THEN Throw(<<"No values to set">>, d)
     ELSE Ok({rows[i] : i \in hit},
             [d EXCEPT ![t] = SelectSeq(rows, LAMBDA r : r.id = id)])

\* db.update(table).set(data).where(eq(table.id, id)).returning(): the
\* updated rows (none when no row has the id).
Update(d, t, id, data) ==
  LET cols == DOMAIN data \cap Columns(t)
      hit == {i \in 1..Len(d[t]) : d[t][i].id = id}
      set(row) == [c \in Columns(t) |-> IF c \in cols THEN data[c] ELSE row[c]]
      rows == [i \in 1..Len(d[t]) |-> IF i \in hit THEN set(d[t][i]) ELSE d[t][i]]
  IN IF cols = {} THEN Throw(<<"No values to set">>, d)
     ELSE IF \E c \in cols \cap NotNullColumns(t) : IsNull(data[c])
       THEN Throw(<<"null value violates not-null constraint">>, d)
     ELSE IF hit # {} /\ "id" \in cols /\ data.id \in Ids(d[t]) \ {id}
       THEN Throw(<<"duplicate key value violates unique constraint">>, d)
     ELSE Ok({rows[i] : i \in hit}, [d EXCEPT ![t] = rows])

\* db.select().from(table).where(...): the rows that satisfy the condition,
\* as a set (no ordering is requested).
Select(d, t, Cond(_)) == {d[t][i] : i \in {j \in 1..Len(d[t]) : Cond(d[t][j])}}

RECURSIVE OrderByDesc(_, _)
\* .orderBy(desc(column)): the rows as a list, largest column value first
\* (rows with equal values in an order the engine picks).
OrderByDesc(rows, c) ==
  IF rows = {} THEN <<>>
  ELSE LET top == CHOOSE r \in rows : \A q \in rows : q[c] <= r[c]
       IN <<top>> \o OrderByDesc(rows \ {top}, c)

\* .limit(n)
Limit(list, n) == IF Len(list) <= n THEN list ELSE SubSeq(list, 1, n)

\* --------------------------------------------------------- DatabaseStorage
\* Every accessor returns [threw, error, value, db]; a row-or-undefined
\* result is the set of the rows found (empty for undefined).
getUser(d, id) == Ok(Select(d, "users", LAMBDA r : r.id = id), d)

getUserByUsername(d, username) ==
  Ok(Select(d, "users", LAMBDA r : r.username = username), d)

createUser(d, insertUser, nowMs) ==
  Insert(d, "users",
         [c \in DOMAIN insertUser \cup {"name"} |->
            IF c = "name"
              THEN (IF "name" \in DOMAIN insertUser /\ insertUser.name # ""
                      THEN insertUser.name ELSE Null)
              ELSE insertUser[c]],
         nowMs)

getProjects(d, userId) ==
  IF userId # NullId
    THEN Ok(Select(d, "projects", LAMBDA r : r.userId = userId), d)
    ELSE Ok(Select(d, "projects", LAMBDA r : TRUE), d)

getProject(d, id) == Ok(Select(d, "projects", LAMBDA r : r.id = id), d)

createProject(d, project, nowMs) == Insert(d, "projects", project, nowMs)

getRecentProjects(d, userId, limit) ==
  Ok(Limit(OrderByDesc(Select(d, "projects", LAMBDA r : r.userId = userId),
                       "createdAt"), limit), d)

getDeployments(d) == Ok(Select(d, "deployments", LAMBDA r : TRUE), d)

createDeployment(d, deployment, nowMs) == Insert(d, "deployments", deployment, nowMs)

getEnvironments(d) == Ok(Select(d, "environments", LAMBDA r : TRUE), d)

getEnvironment(d, id) == Ok(Select(d, "environments", LAMBDA r : r.id = id), d)

updateEnvironment(d, id, data) ==
  LET result == Update(d, "environments", id, data)
  IN IF result.threw THEN result
     ELSE IF result.value = {} THEN Throw(<<"Environment not found">>, result.db)
     ELSE result

getIntegrations(d) == Ok(Select(d, "integrations", LAMBDA r : TRUE), d)

createIntegration(d, integration, nowMs) == Insert(d, "integrations", integration, nowMs)

getActivities(d, limit) ==
  Ok(Limit(OrderByDesc(Select(d, "activities", LAMBDA r : TRUE), "timestamp"), limit), d)

createActivity(d, activity, nowMs) ==
  Insert(d, "activities",
         [c \in DOMAIN activity \cup {"timestamp"} |->
            IF c = "timestamp" THEN nowMs ELSE activity[c]],
         nowMs)

getApprovals(d, status) ==
  IF status # ""
    THEN Ok(Select(d, "approvals", LAMBDA r : r.status = status), d)
    ELSE Ok(Select(d, "approvals", LAMBDA r : TRUE), d)

getApprovalsCount(d, status) ==
  Ok(Cardinality(Select(d, "approvals", LAMBDA r : r.status = status)), d)

\* An undefined status is left out of the SET clause.
updateApprovalStatus(d, id, status) ==
  LET result == Update(d, "approvals", id,
                       IF status = "undefined" THEN <<>> ELSE [status |-> status])
  IN IF result.threw THEN result
     ELSE IF result.value = {} THEN Throw(<<"Approval not found">>, result.db)
     ELSE result

getLogs(d) == Ok(OrderByDesc(Select(d, "logs", LAMBDA r : TRUE), "timestamp"), d)

createLog(d, log, nowMs) ==
  Insert(d, "logs",
         [c \in DOMAIN log \cup {"timestamp"} |->
            IF c = "timestamp" THEN nowMs ELSE log[c]],
         nowMs)

\* Methods of the DatabaseStorage instance exported by server/storage.ts.
IStorage ==
  {"getUser", "getUserByUsername", "createUser", "getProjects", "getProject",
   "createProject", "getRecentProjects", "getDeployments", "createDeployment",
   "getEnvironments", "getEnvironment", "updateEnvironment", "getIntegrations",
   "createIntegration", "getActivities", "createActivity", "getApprovals",
   "getApprovalsCount", "updateApprovalStatus", "getLogs", "createLog"}

\* Methods of the engine multer.diskStorage returns.
DiskStorageEngine == {"_handleFile", "_removeFile", "getFilename", "getDestination"}

\* ------------------------------------------------------------------- state
VARIABLES
  db,        \* the eight tables and their serial sequences
  session,   \* session store: per cookie the logged-in user and the messages
  pending,   \* POST /api/messages requests awaiting the completion API
  uploads,   \* files in the uploads directory
  now,       \* Date.now()
  apiKey,    \* whether the OpenAI client has an API key
  resp,      \* the response sent last
  client     \* the browser: the user known to it, its location, the page shown

vars == <<db, session, pending, uploads, now, apiKey, resp, client>>

ApprovalStatuses == {"pending", "approved", "rejected"}

\* A stored row: the given values, defaults elsewhere.
Row(t, id, values) ==
  [c \in Columns(t) |->
     IF c = "id" THEN id
     ELSE IF c \in DOMAIN values THEN values[c]
     ELSE ColumnDefault(t, c, 0)]

\* Array spread {...a, ...b}: the keys of b win.
Spread(a, b) ==
  [k \in DOMAIN a \cup DOMAIN b |-> IF k \in DOMAIN b THEN b[k] ELSE a[k]]

\* ------------------------------------------------- registerRoutes bindings
\* Variant: the identifier denotes the DatabaseStorage instance imported at
\* the top of the file.
storageImported == "DatabaseStorage"

\* The identifier `storage` inside registerRoutes.  The const declared there
\* for the multer disk storage engine shadows the DatabaseStorage instance
\* imported at the top of the file, so every `storage.x(...)` of a route
\* handler is looked up on the multer engine.
storage == "DiskStorage"

MethodsOf(object) == IF object = "DatabaseStorage" THEN IStorage ELSE DiskStorageEngine

\* Whether the query behind a storage call succeeds; the question only
\* arises for a call that reaches the database.
QueryOutcomes(method) ==
  IF method \in MethodsOf(storage) THEN BOOLEAN ELSE {TRUE}

\* await storage.<method>(...): a TypeError when the object has no such
\* method; otherwise the accessor's result, or the driver's error when the
\* query fails.
storageCall(method, dbOk, d, result) ==
  IF method \notin MethodsOf(storage)
    THEN Throw(<<"storage method is not a function", method>>, d)
  ELSE IF ~dbOk THEN Throw(<<"database query failed">>, d)
  ELSE result

\* req.isAuthenticated()
isAuthenticated(s) == session[s].user # NullId

\* Variant: the middleware calls next() for every request.
ensureAuthenticatedOpen(s) == TRUE

\* ensureAuthenticated: TRUE when next() is called.
ensureAuthenticated(s) == isAuthenticated(s)

\* req.user.username
username(s) ==
  LET found == Select(db, "users", LAMBDA r : r.id = session[s].user)
  IN IF found = {} THEN Null ELSE (CHOOSE r \in found : TRUE).username

\* ---------------------------------------------------------------- responses
\* The request as a handler sees it: the session cookie, req.user and the
\* inputs (params, query, body, file part, and what the services it calls do).
Request(s, input) == [sess |-> s, user |-> session[s].user, input |-> input]

Response(route, req, by, status, message, error, body, apiCalls, storageCalls) ==
  [route |-> route, sess |-> req.sess, user |-> req.user, authed |-> req.user # NullId,
   input |-> req.input, by |-> by,
   status |-> status, message |-> message, error |-> error, body |-> body,
   apiCalls |-> apiCalls, storageCalls |-> storageCalls]

\* res.status(401).json({ message: "Unauthorized" })
Unauthorized(route, req) ==
  Response(route, req, "ensureAuthenticated", 401, "Unauthorized", <<>>, Null, 0, <<>>)

\* What a handler did: answered itself, or threw.
Handled(status, message, error, body, apiCalls, storageCalls) ==
  [threw |-> FALSE, status |-> status, message |-> message, error |-> error,
   body |-> body, apiCalls |-> apiCalls, storageCalls |-> storageCalls]

Thrown(error, apiCalls, storageCalls) ==
  [threw |-> TRUE, status |-> 0, message |-> "", error |-> error,
   body |-> Null, apiCalls |-> apiCalls, storageCalls |-> storageCalls]

\* The application's error-handling middleware, reached through next(error).
errorMiddleware(route, req, error, apiCalls, storageCalls) ==
  Response(route, req, "errorMiddleware", 500, "Internal Server Error", error, Null,
           apiCalls, storageCalls)

\* Variant: no try/catch around the handler, a rejection is left unhandled
\* and the request is never answered.
asyncHandlerNoCatch(route, req, h) ==
  IF h.threw
    THEN Response(route, req, "unhandledRejection", 0, "", h.error, Null,
                  h.apiCalls, h.storageCalls)
    ELSE Response(route, req, "route", h.status, h.message, h.error, h.body,
                  h.apiCalls, h.storageCalls)

\* asyncHandler: the handler's own response, or next(error) when it threw.
asyncHandler(route, req, h) ==
  IF h.threw
    THEN errorMiddleware(route, req, h.error, h.apiCalls, h.storageCalls)
    ELSE Response(route, req, "route", h.status, h.message, h.error, h.body,
                  h.apiCalls, h.storageCalls)

\* ------------------------------------------------------------------ openai
\* Variant: the client is taken to be configured whether or not it has a key.
isConfiguredAlways == TRUE

\* isConfigured(): !!openai.apiKey
isConfigured == apiKey

\* Variant: a failed request to the completion API is sent a second time.
createChatCompletionRetrying(messages, outcome) ==
  IF ~isConfigured
    THEN [threw |-> TRUE, error |-> <<"OpenAI API key not configured">>,
          content |-> "", calls |-> 0]
  ELSE IF outcome = "apiError"
    THEN [threw |-> TRUE, error |-> <<"OpenAI API error", "upstream failure">>,
          content |-> "", calls |-> 2]
  ELSE [threw |-> FALSE, error |-> <<>>, content |-> outcome, calls |-> 1]

\* createChatCompletion: outcome is what the completion API does with the
\* request ("text": a plain-text reply, "json": a JSON reply, "apiError").
createChatCompletion(messages, outcome) ==
  IF ~isConfigured
    THEN [threw |-> TRUE, error |-> <<"OpenAI API key not configured">>,
          content |-> "", calls |-> 0]
  ELSE IF outcome = "apiError"
    THEN [threw |-> TRUE, error |-> <<"OpenAI API error", "upstream failure">>,
          content |-> "", calls |-> 1]
  ELSE [threw |-> FALSE, error |-> <<>>, content |-> outcome, calls |-> 1]

\* The catch block of the helper functions: rethrow with a prefix.
Rethrow(prefix, r) == [r EXCEPT !.error = <<prefix>> \o @]

generateCode(outcome) ==
  LET r == createChatCompletion(<<"system", "user">>, outcome)
  IN IF r.threw THEN Rethrow("Failed to generate code", r) ELSE r

\* JSON.parse of the reply throws unless the reply is JSON.
analyzeCode(outcome) ==
  LET r == createChatCompletion(<<"system", "user">>, outcome)
  IN IF r.threw THEN Rethrow("Failed to analyze code", r)
     ELSE IF r.content # "json"
       THEN [r EXCEPT !.threw = TRUE,
                      !.error = <<"Failed to analyze code", "Unexpected token">>]
     ELSE r

generateDocumentation(outcome) ==
  LET r == createChatCompletion(<<"system", "user">>, outcome)
  IN IF r.threw THEN Rethrow("Failed to generate documentation", r) ELSE r

naturalLanguageToRequirements(outcome) ==
  LET r == createChatCompletion(<<"system", "user">>, outcome)
  IN IF r.threw THEN Rethrow("Failed to generate requirements", r)
     ELSE IF r.content # "json"
       THEN [r EXCEPT !.threw = TRUE,
                      !.error = <<"Failed to generate requirements", "Unexpected token">>]
     ELSE r

Outcomes == {"text", "json", "apiError"}

\* -------------------------------------------------------------------- Init
SeedUsers ==
  << Row("users", 1, [username |-> "alice", password |-> "hash"]),
     Row("users", 2, [username |-> "bob", password |-> "hash"]) >>

SeedProjects ==
  << Row("projects", 1, [name |-> "site", type |-> "web", userId |-> 1]),
     Row("projects", 2, [name |-> "api", type |-> "service", userId |-> 2]) >>

SeedEnvironments ==
  << Row("environments", 1, [name |-> "production", type |-> "cloud", status |-> "active"]),
     Row("environments", 2, [name |-> "staging", type |-> "cloud", status |-> "active"]) >>

SeedApprovals ==
  << Row("approvals", 1, [title |-> "release", description |-> "ship it",
                          type |-> "deployment", priority |-> "high",
                          status |-> "pending"]),
     Row("approvals", 2, [title |-> "hotfix", description |-> "patch",
                          type |-> "deployment", priority |-> "low",
                          status |-> "approved"]) >>

\* The tables as the application finds them at start.
SeedDb ==
  [users |-> SeedUsers, projects |-> SeedProjects, deployments |-> <<>>,
   environments |-> SeedEnvironments, integrations |-> <<>>,
   activities |-> <<>>, approvals |-> SeedApprovals, logs |-> <<>>,
   serial |-> [t \in Tables |->
                 IF t \in {"users", "projects", "environments", "approvals"}
                   THEN 2 ELSE 0]]

Init ==
  /\ db = SeedDb
  /\ session = [s \in Sessions |-> [user |-> NullId, hasMessages |-> FALSE, messages |-> <<>>]]
  /\ pending = <<>>
  /\ uploads = {}
  /\ now = 1
  /\ apiKey \in BOOLEAN
  /\ resp = NoResponse
  /\ client = [user |-> NullId, location |-> "/", page |-> "none", stale |-> TRUE]

\* ----------------------------------------------------------- clock, sessions
\* POST /api/login of setupAuth with the credentials of user u.
Login(s, u) ==
  /\ u \in Ids(db.users)
  /\ session' = [session EXCEPT ![s].user = u]
  /\ resp' = Response("POST /api/login", Request(s, [user |-> u]), "auth", 200, "", <<>>, Null, 0, <<"getUserByUsername">>)
  /\ UNCHANGED <<db, pending, uploads, now, apiKey, client>>

\* POST /api/logout of setupAuth.
Logout(s) ==
  /\ isAuthenticated(s)
  /\ session' = [session EXCEPT ![s].user = NullId]
  /\ resp' = Response("POST /api/logout", Request(s, Null), "auth", 200, "", <<>>, Null, 0, <<>>)
  /\ UNCHANGED <<db, pending, uploads, now, apiKey, client>>

\* ------------------------------------------------------------ request inputs
RowIds == {1, 2, 9}

ProjectBodies ==
  { [name |-> "shop", type |-> "web"],
    [name |-> "shop", type |-> "web", userId |-> 2],
    [name |-> "shop", type |-> "web", id |-> 1],
    [type |-> "web"] }

DeploymentBodies ==
  { [projectId |-> 1, environment |-> "production", status |-> "success"],
    [projectId |-> 1, environment |-> "production", status |-> "success",
     deployedBy |-> "mallory"] }

IntegrationBodies ==
  { [name |-> "slack", type |-> "messaging", status |-> "active"] }

EnvironmentBodies ==
  { [status |-> "inactive"], [id |-> 2] }

Undefined == "undefined"

ApprovalBodies ==
  { [status |-> "approved"], [status |-> "archived"], [comment |-> "no status"] }

\* A read handler: one storage call, then res.json(result).
ReadRoute(route, s, input, method, result) ==
  /\ IF ~ensureAuthenticated(s)
       THEN resp' = Unauthorized(route, Request(s, input))
       ELSE \E dbOk \in QueryOutcomes(method) :
              LET q == storageCall(method, dbOk, db, result)
                  req == Request(s, Spread(input, [dbOk |-> <<dbOk>>]))
              IN resp' = asyncHandler(route, req,
                           IF q.threw THEN Thrown(q.error, 0, <<method>>)
                           ELSE Handled(200, "", <<>>, q.value, 0, <<method>>))
  /\ UNCHANGED <<db, session, pending, uploads, now, apiKey, client>>

\* A read handler for one row: 404 when the row is undefined.
ReadOneRoute(route, s, input, method, result, notFound) ==
  /\ IF ~ensureAuthenticated(s)
       THEN resp' = Unauthorized(route, Request(s, input))
       ELSE \E dbOk \in QueryOutcomes(method) :
              LET q == storageCall(method, dbOk, db, result)
                  req == Request(s, Spread(input, [dbOk |-> <<dbOk>>]))
              IN resp' = asyncHandler(route, req,
                           IF q.threw THEN Thrown(q.error, 0, <<method>>)
                           ELSE IF q.value = {}
                             THEN Handled(404, notFound, <<>>, {}, 0, <<method>>)
                           ELSE Handled(200, "", <<>>, q.value, 0, <<method>>))
  /\ UNCHANGED <<db, session, pending, uploads, now, apiKey, client>>

\* A create handler: the primary insert, then the activity insert, then 201.
CreateRoute(route, s, input, method, made, activity(_)) ==
  /\ IF ~ensureAuthenticated(s)
       THEN resp' = Unauthorized(route, Request(s, input)) /\ UNCHANGED db
       ELSE \E dbOk1 \in QueryOutcomes(method), dbOk2 \in QueryOutcomes("createActivity") :
              LET req == Request(s, Spread(input, [dbOk |-> <<dbOk1, dbOk2>>]))
                  p == storageCall(method, dbOk1, db, made)
                  a == storageCall("createActivity", dbOk2, p.db,
                                   createActivity(p.db, activity(p.value), now))
              IN IF p.threw
                   THEN /\ resp' = asyncHandler(route, req, Thrown(p.error, 0, <<method>>))
                        /\ db' = p.db
                 ELSE IF a.threw
                   THEN /\ resp' = asyncHandler(route, req,
                                     Thrown(a.error, 0, <<method, "createActivity">>))
                        /\ db' = a.db
                 ELSE /\ resp' = asyncHandler(route, req,
                                   Handled(201, "", <<>>, p.value, 0,
                                           <<method, "createActivity">>))
                      /\ db' = a.db
  /\ UNCHANGED <<session, pending, uploads, now, apiKey, client>>

\* ------------------------------------------------------------------ projects
GetProjects(s) ==
  ReadRoute("GET /api/projects", s, [query |-> Null], "getProjects", getProjects(db, session[s].user))

GetRecentProjects(s) ==
  ReadRoute("GET /api/projects/recent", s, [query |-> Null], "getRecentProjects",
            getRecentProjects(db, session[s].user, RecentLimit))

GetProject(s, id) ==
  ReadOneRoute("GET /api/projects/:id", s, [id |-> id], "getProject", getProject(db, id),
               "Project not found")

PostProject(s, body) ==
  /\ Len(db.projects) < MaxRows /\ Len(db.activities) < MaxRows
  /\ CreateRoute("POST /api/projects", s, [body |-> body], "createProject",
                 createProject(db, Spread(body, [userId |-> session[s].user]), now),
                 LAMBDA project :
                   [type |-> "project_created", description |-> "Project was created",
                    projectId |-> project.id,
                    metadata |-> [projectType |-> project.type]])

\* --------------------------------------------------------------- deployments
GetDeployments(s) ==
  ReadRoute("GET /api/deployments", s, [query |-> Null], "getDeployments", getDeployments(db))

PostDeployment(s, body) ==
  /\ Len(db.deployments) < MaxRows /\ Len(db.activities) < MaxRows
  /\ CreateRoute("POST /api/deployments", s, [body |-> body], "createDeployment",
                 createDeployment(db, Spread(body, [deployedBy |-> username(s)]), now),
                 LAMBDA deployment :
                   [type |-> "deployment_created", description |-> "New deployment",
                    projectId |-> deployment.projectId,
                    metadata |-> [status |-> deployment.status]])

\* -------------------------------------------------------------- environments
GetEnvironments(s) ==
  ReadRoute("GET /api/environments", s, [query |-> Null], "getEnvironments", getEnvironments(db))

GetEnvironment(s, id) ==
  ReadOneRoute("GET /api/environments/:id", s, [id |-> id], "getEnvironment", getEnvironment(db, id),
               "Environment not found")

PatchEnvironment(s, id, body) ==
  /\ IF ~ensureAuthenticated(s)
       THEN resp' = Unauthorized("PATCH /api/environments/:id",
                                 Request(s, [id |-> id, body |-> body]))
            /\ UNCHANGED db
       ELSE \E dbOk \in QueryOutcomes("updateEnvironment") :
              LET req == Request(s, [id |-> id, body |-> body, dbOk |-> <<dbOk>>])
                  q == storageCall("updateEnvironment", dbOk, db,
                                   updateEnvironment(db, id, body))
              IN /\ resp' = asyncHandler("PATCH /api/environments/:id", req,
                              IF q.threw THEN Thrown(q.error, 0, <<"updateEnvironment">>)
                              ELSE Handled(200, "", <<>>, q.value, 0, <<"updateEnvironment">>))
                 /\ db' = q.db
  /\ UNCHANGED <<session, pending, uploads, now, apiKey, client>>

\* -------------------------------------------------------------- integrations
GetIntegrations(s) ==
  ReadRoute("GET /api/integrations", s, [query |-> Null], "getIntegrations", getIntegrations(db))

PostIntegration(s, body) ==
  /\ Len(db.integrations) < MaxRows /\ Len(db.activities) < MaxRows
  /\ CreateRoute("POST /api/integrations", s, [body |-> body], "createIntegration",
                 createIntegration(db, body, now),
                 LAMBDA integration :
                   [type |-> "integration_created", description |-> "New integration",
                    metadata |-> [integrationType |-> integration.type]])

\* ---------------------------------------------------------------- activities
\* limit: the parsed ?limit= query parameter, 0 when it is absent.
GetActivities(s, limit) ==
  ReadRoute("GET /api/activities", s, [limit |-> limit], "getActivities",
            getActivities(db, IF limit # 0 THEN limit ELSE DefaultActivityLimit))

\* ----------------------------------------------------------------- approvals
\* status: the ?status= query parameter, "" when it is absent.
GetApprovals(s, status) ==
  ReadRoute("GET /api/approvals", s, [status |-> status], "getApprovals", getApprovals(db, status))

GetApprovalsCount(s, status) ==
  ReadRoute("GET /api/approvals/count", s, [status |-> status], "getApprovalsCount",
            getApprovalsCount(db, IF status # "" THEN status ELSE "pending"))

\* const { status } = req.body
statusOf(body) == IF "status" \in DOMAIN body THEN body.status ELSE Undefined

PatchApprovalStatus(s, id, body) ==
  /\ Len(db.activities) < MaxRows
  /\ IF ~ensureAuthenticated(s)
       THEN resp' = Unauthorized("PATCH /api/approvals/:id/status",
                                 Request(s, [id |-> id, body |-> body]))
            /\ UNCHANGED db
       ELSE \E dbOk1 \in QueryOutcomes("updateApprovalStatus"),
               dbOk2 \in QueryOutcomes("createActivity") :
              LET route == "PATCH /api/approvals/:id/status"
                  req == Request(s, [id |-> id, body |-> body, dbOk |-> <<dbOk1, dbOk2>>])
                  status == statusOf(body)
                  q == storageCall("updateApprovalStatus", dbOk1, db,
                                   updateApprovalStatus(db, id, status))
                  approval == CHOOSE r \in q.value : TRUE
                  a == storageCall("createActivity", dbOk2, q.db,
                         createActivity(q.db,
                           [type |-> "approval_updated",
                            description |-> "Approval was updated",
                            metadata |-> [approvalType |-> approval.type,
                                          status |-> status]], now))
              IN IF q.threw
                   THEN /\ resp' = asyncHandler(route, req,
                                     Thrown(q.error, 0, <<"updateApprovalStatus">>))
                        /\ db' = q.db
                 ELSE IF a.threw
                   THEN /\ resp' = asyncHandler(route, req,
                                     Thrown(a.error, 0,
                                            <<"updateApprovalStatus", "createActivity">>))
                        /\ db' = a.db
                 ELSE /\ resp' = asyncHandler(route, req,
                                   Handled(200, "", <<>>, q.value, 0,
                                           <<"updateApprovalStatus", "createActivity">>))
                      /\ db' = a.db
  /\ UNCHANGED <<session, pending, uploads, now, apiKey, client>>

\* ---------------------------------------------------------------------- logs
GetLogs(s) == ReadRoute("GET /api/logs", s, [query |-> Null], "getLogs", getLogs(db))

\* ------------------------------------------------------------------ messages
SystemPrompt == [role |-> "system", content |-> "You are Rashed"]

\* req.session.messages.map(msg => ({ role, content }))
ForwardedHistory(messages) ==
  [i \in 1..Len(messages) |->
     [role |-> IF messages[i].role = "user" THEN "user" ELSE "assistant",
      content |-> messages[i].content]]

\* Variant: the array is built from the history before the new message
\* was pushed.
CompletionMessagesBeforePush(messages) ==
  <<SystemPrompt>> \o ForwardedHistory(SubSeq(messages, 1, Len(messages) - 1))

\* The messages array handed to createChatCompletion.
CompletionMessages(messages) == <<SystemPrompt>> \o ForwardedHistory(messages)

\* Variant: the messages are kept in one array for all sessions.
SaveMessagesShared(s, messages) ==
  session' = [t \in Sessions |->
                [session[t] EXCEPT !.hasMessages = TRUE, !.messages = messages]]

\* The session middleware writes the request's session back when the
\* response ends.
SaveMessages(s, messages) ==
  session' = [session EXCEPT ![s].hasMessages = TRUE, ![s].messages = messages]

\* Number of messages held in the session store.
StoredMessages ==
  LET count[S \in SUBSET Sessions] ==
        IF S = {} THEN 0
        ELSE LET s == CHOOSE x \in S : TRUE
             IN Len(session[s].messages) + count[S \ {s}]
  IN count[Sessions]

GetMessages(s) ==
  /\ LET req == Request(s, [query |-> Null]) IN
     IF ~ensureAuthenticated(s)
       THEN resp' = Unauthorized("GET /api/messages", req)
       ELSE resp' = asyncHandler("GET /api/messages", req,
                      Handled(200, "", <<>>,
                              IF session[s].hasMessages THEN session[s].messages ELSE <<>>,
                              0, <<>>))
  /\ UNCHANGED <<db, session, pending, uploads, now, apiKey, client>>

\* Variant: the session's message list is initialised before the content
\* is validated.
PostMessagesInitFirst(s, content) ==
  LET route == "POST /api/messages"
      req == Request(s, [content |-> content])
      history == IF session[s].hasMessages THEN session[s].messages ELSE <<>>
      userMessage == [id |-> now, role |-> "user", content |-> content, timestamp |-> now]
      messages == Append(history, userMessage)
      sent == CompletionMessages(messages)
      completion == createChatCompletion(sent, "text")
  IN /\ UNCHANGED <<db, uploads, now, apiKey, client>>
     /\ IF ~ensureAuthenticated(s)
          THEN resp' = Unauthorized(route, req) /\ UNCHANGED <<session, pending>>
        ELSE IF content = NoContent
          THEN /\ resp' = asyncHandler(route, req,
                            Handled(400, "Message content is required", <<>>, Null, 0, <<>>))
               /\ SaveMessages(s, history)
               /\ UNCHANGED pending
        ELSE /\ StoredMessages + 2 * Len(pending) + 2 <= MaxHistory
             /\ IF ~isConfigured
                  THEN /\ resp' = asyncHandler(route, req,
                                    Handled(500, "Error processing message",
                                            completion.error, Null, completion.calls, <<>>))
                       /\ SaveMessages(s, messages)
                       /\ UNCHANGED pending
                  ELSE /\ pending' = Append(pending,
                                       [sess |-> s, user |-> req.user,
                                        content |-> content,
                                        messages |-> messages, sent |-> sent,
                                        apiCalls |-> completion.calls])
                       /\ resp' = NoResponse
                       /\ UNCHANGED session

\* POST /api/messages up to the await of the completion call.
PostMessages(s, content) ==
  LET route == "POST /api/messages"
      req == Request(s, [content |-> content])
      history == IF session[s].hasMessages THEN session[s].messages ELSE <<>>
      userMessage == [id |-> now, role |-> "user", content |-> content, timestamp |-> now]
      messages == Append(history, userMessage)
      sent == CompletionMessages(messages)
      completion == createChatCompletion(sent, "text")
  IN /\ UNCHANGED <<db, uploads, now, apiKey, client>>
     /\ IF ~ensureAuthenticated(s)
          THEN resp' = Unauthorized(route, req) /\ UNCHANGED <<session, pending>>
        ELSE IF content = NoContent
          THEN /\ resp' = asyncHandler(route, req,
                            Handled(400, "Message content is required", <<>>, Null, 0, <<>>))
               /\ UNCHANGED <<session, pending>>
        ELSE /\ StoredMessages + 2 * Len(pending) + 2 <= MaxHistory
             /\ IF ~isConfigured
                  THEN /\ resp' = asyncHandler(route, req,
                                    Handled(500, "Error processing message",
                                            completion.error, Null, completion.calls, <<>>))
                       /\ SaveMessages(s, messages)
                       /\ UNCHANGED pending
                  ELSE /\ pending' = Append(pending,
                                       [sess |-> s, user |-> req.user,
                                        content |-> content,
                                        messages |-> messages, sent |-> sent,
                                        apiCalls |-> completion.calls])
                       /\ resp' = NoResponse
                       /\ UNCHANGED session

\* Variant: a failed completion call takes the user message out of the
\* history again.
PostMessagesReturnRollback(i, outcome) ==
  LET route == "POST /api/messages"
      call == pending[i]
      req == [sess |-> call.sess, user |-> call.user,
              input |-> [content |-> call.content, outcome |-> outcome]]
      completion == createChatCompletion(call.sent, outcome)
      assistantMessage == [id |-> now + 1, role |-> "assistant",
                           content |-> completion.content, timestamp |-> now]
      messages == Append(call.messages, assistantMessage)
  IN /\ i \in 1..Len(pending)
     /\ pending' = [j \in 1..(Len(pending) - 1) |->
                      IF j < i THEN pending[j] ELSE pending[j + 1]]
     /\ UNCHANGED <<uploads, now, apiKey, client>>
     /\ IF completion.threw
          THEN /\ resp' = asyncHandler(route, req,
                            Handled(500, "Error processing message", completion.error,
                                    Null, call.apiCalls, <<>>))
               /\ SaveMessages(call.sess, SubSeq(call.messages, 1, Len(call.messages) - 1))
               /\ UNCHANGED db
          ELSE \E dbOk \in QueryOutcomes("createActivity") :
                 LET a == storageCall("createActivity", dbOk, db,
                            createActivity(db,
                              [type |-> "chat_interaction",
                               description |-> "Chat interaction with AI assistant",
                               metadata |-> [messageCount |-> Len(messages)]], now))
                 IN /\ Len(db.activities) < MaxRows
                    /\ db' = a.db
                    /\ SaveMessages(call.sess, messages)
                    /\ resp' = asyncHandler(route, req,
                                 IF a.threw
                                   THEN Handled(500, "Error processing message", a.error,
                                                Null, call.apiCalls, <<"createActivity">>)
                                   ELSE Handled(201, "", <<>>, assistantMessage,
                                                call.apiCalls, <<"createActivity">>))

\* POST /api/messages from the return of the completion call to the response.
PostMessagesReturn(i, outcome) ==
  LET route == "POST /api/messages"
      call == pending[i]
      req == [sess |-> call.sess, user |-> call.user,
              input |-> [content |-> call.content, outcome |-> outcome]]
      completion == createChatCompletion(call.sent, outcome)
      assistantMessage == [id |-> now + 1, role |-> "assistant",
                           content |-> completion.content, timestamp |-> now]
      messages == Append(call.messages, assistantMessage)
  IN /\ i \in 1..Len(pending)
     /\ pending' = [j \in 1..(Len(pending) - 1) |->
                      IF j < i THEN pending[j] ELSE pending[j + 1]]
     /\ UNCHANGED <<uploads, now, apiKey, client>>
     /\ IF completion.threw
          THEN /\ resp' = asyncHandler(route, req,
                            Handled(500, "Error processing message", completion.error,
                                    Null, call.apiCalls, <<>>))
               /\ SaveMessages(call.sess, call.messages)
               /\ UNCHANGED db
          ELSE \E dbOk \in QueryOutcomes("createActivity") :
                 LET a == storageCall("createActivity", dbOk, db,
                            createActivity(db,
                              [type |-> "chat_interaction",
                               description |-> "Chat interaction with AI assistant",
                               metadata |-> [messageCount |-> Len(messages)]], now))
                 IN /\ Len(db.activities) < MaxRows
                    /\ db' = a.db
                    /\ SaveMessages(call.sess, messages)
                    /\ resp' = asyncHandler(route, req,
                                 IF a.threw
                                   THEN Handled(500, "Error processing message", a.error,
                                                Null, call.apiCalls, <<"createActivity">>)
                                   ELSE Handled(201, "", <<>>, assistantMessage,
                                                call.apiCalls, <<"createActivity">>))

ResetMessages(s) ==
  /\ LET req == Request(s, [body |-> Null]) IN
     IF ~ensureAuthenticated(s)
       THEN resp' = Unauthorized("POST /api/messages/reset", req) /\ UNCHANGED session
       ELSE /\ SaveMessages(s, <<>>)
            /\ resp' = asyncHandler("POST /api/messages/reset", req,
                         Handled(200, "Conversation reset successfully", <<>>, Null, 0, <<>>))
  /\ UNCHANGED <<db, pending, uploads, now, apiKey, client>>

\* ------------------------------------------------------------------ AI routes
\* Variant: no try/catch in the handler, the helper's error goes to
\* next(error).
AiRouteForwarding(route, s, bodyOk, outcome, invalid, result) ==
  /\ LET req == Request(s, [bodyOk |-> bodyOk, outcome |-> outcome]) IN
     IF ~ensureAuthenticated(s)
       THEN resp' = Unauthorized(route, req)
     ELSE IF ~bodyOk
       THEN resp' = asyncHandler(route, req, Handled(400, invalid, <<>>, Null, 0, <<>>))
     ELSE resp' = asyncHandler(route, req,
                    IF result.threw
                      THEN Thrown(result.error, result.calls, <<>>)
                      ELSE Handled(200, "", <<>>, result.content, result.calls, <<>>))
  /\ UNCHANGED <<db, session, pending, uploads, now, apiKey, client>>

\* A handler of the /api/ai/* shape: validate the body, call the helper,
\* answer 500 with the error text when it throws.
AiRoute(route, s, bodyOk, outcome, invalid, result) ==
  /\ LET req == Request(s, [bodyOk |-> bodyOk, outcome |-> outcome]) IN
     IF ~ensureAuthenticated(s)
       THEN resp' = Unauthorized(route, req)
     ELSE IF ~bodyOk
       THEN resp' = asyncHandler(route, req, Handled(400, invalid, <<>>, Null, 0, <<>>))
     ELSE resp' = asyncHandler(route, req,
                    IF result.threw
                      THEN Handled(500, "Error from OpenAI API", result.error, Null,
                                   result.calls, <<>>)
                      ELSE Handled(200, "", <<>>, result.content, result.calls, <<>>))
  /\ UNCHANGED <<db, session, pending, uploads, now, apiKey, client>>

AiChat(s, bodyOk, outcome) ==
  AiRoute("POST /api/ai/chat", s, bodyOk, outcome, "Invalid request body",
          createChatCompletion(<<"user">>, outcome))

AiCode(s, bodyOk, outcome) ==
  AiRoute("POST /api/ai/code", s, bodyOk, outcome, "Prompt and language are required",
          generateCode(outcome))

AiAnalyze(s, bodyOk, outcome) ==
  AiRoute("POST /api/ai/analyze", s, bodyOk, outcome, "Code and language are required",
          analyzeCode(outcome))

AiDocument(s, bodyOk, outcome) ==
  AiRoute("POST /api/ai/document", s, bodyOk, outcome, "Code and language are required",
          generateDocumentation(outcome))

AiRequirements(s, bodyOk, outcome) ==
  AiRoute("POST /api/ai/requirements", s, bodyOk, outcome, "Project description is required",
          naturalLanguageToRequirements(outcome))

\* --------------------------------------------------------------- file routes
NoFile == [present |-> FALSE]

\* The multipart bodies offered: no file part, or one file part.
FileParts ==
  { NoFile,
    [present |-> TRUE, originalname |-> <<"a", "-", "b", ".", "J", "S">>, size |-> FileSizeLimit],
    [present |-> TRUE, originalname |-> <<"x", ".", "e", "x", "e">>, size |-> FileSizeLimit],
    [present |-> TRUE, originalname |-> <<"m", "d">>, size |-> FileSizeLimit],
    [present |-> TRUE, originalname |-> <<"a", ".", "j", "s">>, size |-> FileSizeLimit + 1] }

\* upload.single('file'): "none" when the body has no file part, "rejected"
\* when the fileFilter refuses it, "tooLarge" when it exceeds limits.fileSize
\* (the partial file is removed), "stored" otherwise.
multerSingle(part) ==
  IF ~part.present THEN "none"
  ELSE IF ~fileFilter(part.originalname) THEN "rejected"
  ELSE IF part.size > FileSizeLimit THEN "tooLarge"
  ELSE "stored"

multerError(outcome) ==
  IF outcome = "rejected" THEN <<"Only common file types are allowed">>
  ELSE <<"File too large">>

\* The file written by the disk storage engine.
StoredFile(part, rnd) ==
  [filename |-> filename(now, rnd, part.originalname),
   originalname |-> part.originalname, size |-> part.size]

\* Writing a file: a file of the same name is replaced.
WriteFile(file) ==
  uploads' = {f \in uploads : f.filename # file.filename} \cup {file}

FilesUpload(s, part, rnd) ==
  LET route == "POST /api/files/upload"
      req == Request(s, [part |-> part, rnd |-> rnd])
      outcome == multerSingle(part)
  IN /\ UNCHANGED <<session, pending, now, apiKey, client>>
     /\ IF ~ensureAuthenticated(s)
          THEN resp' = Unauthorized(route, req) /\ UNCHANGED <<db, uploads>>
        ELSE IF outcome \in {"rejected", "tooLarge"}
          THEN /\ resp' = errorMiddleware(route, req, multerError(outcome), 0, <<>>)
               /\ UNCHANGED <<db, uploads>>
        ELSE IF outcome = "none"
          THEN /\ resp' = asyncHandler(route, req,
                            Handled(400, "No file uploaded", <<>>, Null, 0, <<>>))
               /\ UNCHANGED <<db, uploads>>
        ELSE \E dbOk \in QueryOutcomes("createActivity") :
               LET file == StoredFile(part, rnd)
                   a == storageCall("createActivity", dbOk, db,
                          createActivity(db,
                            [type |-> "file_uploaded", description |-> "File was uploaded",
                             metadata |-> [filesize |-> part.size,
                                           filetype |-> extname(part.originalname)]],
                            now))
               IN /\ Len(db.activities) < MaxRows
                  /\ WriteFile(file)
                  /\ db' = a.db
                  /\ resp' = asyncHandler(route, req,
                               IF a.threw THEN Thrown(a.error, 0, <<"createActivity">>)
                               ELSE Handled(201, "", <<>>, file, 0, <<"createActivity">>))

\* Variant: the original name is taken to be the third piece alone.
originalFilenameThirdPiece(stored) ==
  LET pieces == split(stored, "-")
  IN IF Len(pieces) >= 3 /\ pieces[3] # <<>> THEN pieces[3] ELSE stored

\* The original name GET /api/files derives from a stored file name.
originalFilename(stored) ==
  LET rest == join(slice(split(stored, "-"), 2), "-")
  IN IF rest # <<>> THEN rest ELSE stored

\* fsOk: whether reading the uploads directory succeeds.
GetFiles(s, fsOk) ==
  /\ LET req == Request(s, [fsOk |-> fsOk]) IN
     IF ~ensureAuthenticated(s)
       THEN resp' = Unauthorized("GET /api/files", req)
       ELSE resp' = asyncHandler("GET /api/files", req,
                      IF ~fsOk
                        THEN Handled(500, "Error retrieving files", <<"ENOENT">>, Null, 0, <<>>)
                        ELSE Handled(200, "", <<>>,
                                     {[filename |-> f.filename,
                                       originalname |-> originalFilename(f.filename),
                                       size |-> f.size] : f \in uploads},
                                     0, <<>>))
  /\ UNCHANGED <<db, session, pending, uploads, now, apiKey, client>>

\* languageMap of POST /api/files/analyze, keyed by extension without dot.
languageMap(ext) ==
  CASE ext = <<"j", "s">> -> "javascript"
    [] ext = <<"j", "s", "x">> -> "javascript"
    [] ext = <<"t", "s">> -> "typescript"
    [] ext = <<"t", "s", "x">> -> "typescript"
    [] ext = <<"p", "y">> -> "python"
    [] ext = <<"j", "a", "v", "a">> -> "java"
    [] ext = <<"c">> -> "c"
    [] ext = <<"c", "p", "p">> -> "c++"
    [] ext = <<"c", "s">> -> "c#"
    [] ext = <<"p", "h", "p">> -> "php"
    [] ext = <<"g", "o">> -> "go"
    [] ext = <<"r", "b">> -> "ruby"
    [] ext = <<"r", "s">> -> "rust"
    [] ext = <<"h", "t", "m", "l">> -> "html"
    [] ext = <<"c", "s", "s">> -> "css"
    [] ext = <<"j", "s", "o", "n">> -> "json"
    [] ext = <<"m", "d">> -> "markdown"
    [] OTHER -> Undefined

\* languageMap[fileExt] || fileExt, with fileExt the extension after its dot.
languageOf(originalname) ==
  LET fileExt == slice(extname(originalname), 1)
  IN IF languageMap(fileExt) # Undefined
       THEN [mapped |-> TRUE, name |-> languageMap(fileExt), ext |-> fileExt]
       ELSE [mapped |-> FALSE, name |-> Undefined, ext |-> fileExt]

FilesAnalyze(s, part, rnd, outcome) ==
  LET route == "POST /api/files/analyze"
      req == Request(s, [part |-> part, rnd |-> rnd, outcome |-> outcome])
      stored == multerSingle(part)
  IN /\ UNCHANGED <<session, pending, now, apiKey, client>>
     /\ IF ~ensureAuthenticated(s)
          THEN resp' = Unauthorized(route, req) /\ UNCHANGED <<db, uploads>>
        ELSE IF stored \in {"rejected", "tooLarge"}
          THEN /\ resp' = errorMiddleware(route, req, multerError(stored), 0, <<>>)
               /\ UNCHANGED <<db, uploads>>
        ELSE IF stored = "none"
          THEN /\ resp' = asyncHandler(route, req,
                            Handled(400, "No file uploaded", <<>>, Null, 0, <<>>))
               /\ UNCHANGED <<db, uploads>>
        ELSE \E dbOk \in QueryOutcomes("createActivity") :
               LET file == StoredFile(part, rnd)
                   language == languageOf(part.originalname)
                   analysis == analyzeCode(outcome)
                   a == storageCall("createActivity", dbOk, db,
                          createActivity(db,
                            [type |-> "file_analyzed", description |-> "File was analyzed",
                             metadata |-> [language |-> language, filesize |-> part.size]],
                            now))
               IN /\ Len(db.activities) < MaxRows
                  /\ WriteFile(file)
                  /\ IF analysis.threw
                       THEN /\ resp' = asyncHandler(route, req,
                                         Handled(500, "Error analyzing file", analysis.error,
                                                 Null, analysis.calls, <<>>))
                            /\ UNCHANGED db
                     ELSE IF a.threw
                       THEN /\ resp' = asyncHandler(route, req,
                                         Handled(500, "Error analyzing file", a.error, Null,
                                                 analysis.calls, <<"createActivity">>))
                            /\ db' = a.db
                     ELSE /\ resp' = asyncHandler(route, req,
                                       Handled(200, "", <<>>,
                                               [filename |-> part.originalname,
                                                language |-> language],
                                               analysis.calls, <<"createActivity">>))
                          /\ db' = a.db

\* ---------------------------------------------------------------------- Next
\* The cookies in use under Spec: one browser.
\* Positions in the list of chat requests in flight.
InFlight == 1..(MaxHistory \div 2)

Browsers == {"sA"}

Next ==
  \/ \E s \in Browsers, u \in Ids(SeedUsers) : Login(s, u)
  \/ \E s \in Browsers : Logout(s)
  \/ \E s \in Browsers : GetProjects(s)
  \/ \E s \in Browsers : GetRecentProjects(s)
  \/ \E s \in Browsers, id \in RowIds : GetProject(s, id)
  \/ \E s \in Browsers, body \in ProjectBodies : PostProject(s, body)
  \/ \E s \in Browsers : GetDeployments(s)
  \/ \E s \in Browsers, body \in DeploymentBodies : PostDeployment(s, body)
  \/ \E s \in Browsers : GetEnvironments(s)
  \/ \E s \in Browsers, id \in {1, 9} : GetEnvironment(s, id)
  \/ \E s \in Browsers, id \in {1, 9}, body \in EnvironmentBodies : PatchEnvironment(s, id, body)
  \/ \E s \in Browsers : GetIntegrations(s)
  \/ \E s \in Browsers, body \in IntegrationBodies : PostIntegration(s, body)
  \/ \E s \in Browsers, limit \in {0, 1} : GetActivities(s, limit)
  \/ \E s \in Browsers, status \in {"", "pending"} : GetApprovals(s, status)
  \/ \E s \in Browsers, status \in {"", "approved"} : GetApprovalsCount(s, status)
  \/ \E s \in Browsers, id \in {1, 9}, body \in ApprovalBodies : PatchApprovalStatus(s, id, body)
  \/ \E s \in Browsers : GetLogs(s)
  \/ \E s \in Browsers : GetMessages(s)
  \/ \E s \in Browsers, content \in Contents \cup {NoContent} : PostMessages(s, content)
  \/ \E i \in InFlight, outcome \in {"text", "apiError"} : PostMessagesReturn(i, outcome)
  \/ \E s \in Browsers : ResetMessages(s)
  \/ \E s \in Browsers, bodyOk \in BOOLEAN, outcome \in {"text", "apiError"} :
       (bodyOk \/ outcome = "text") /\ AiChat(s, bodyOk, outcome)
  \/ \E s \in Browsers, bodyOk \in BOOLEAN, outcome \in {"text", "apiError"} :
       (bodyOk \/ outcome = "text") /\ AiCode(s, bodyOk, outcome)
  \/ \E s \in Browsers, bodyOk \in BOOLEAN, outcome \in Outcomes :
       (bodyOk \/ outcome = "text") /\ AiAnalyze(s, bodyOk, outcome)
  \/ \E s \in Browsers, bodyOk \in BOOLEAN, outcome \in {"text", "apiError"} :
       (bodyOk \/ outcome = "text") /\ AiDocument(s, bodyOk, outcome)
  \/ \E s \in Browsers, bodyOk \in BOOLEAN, outcome \in Outcomes :
       (bodyOk \/ outcome = "text") /\ AiRequirements(s, bodyOk, outcome)
  \/ \E s \in Browsers, part \in FileParts, rnd \in Random : FilesUpload(s, part, rnd)
  \/ \E s \in Browsers, fsOk \in BOOLEAN : GetFiles(s, fsOk)
  \/ \E s \in Browsers, part \in FileParts, rnd \in Random, outcome \in Outcomes :
       (multerSingle(part) = "stored" \/ outcome = "text") /\ FilesAnalyze(s, part, rnd, outcome)

\* The routes as one browser drives them, all requests within one
\* millisecond of Date.now().
Spec == Init /\ [][Next]_vars

\* ------------------------------------------------------ the chat routes
\* A millisecond passes.
Tick ==
  /\ now < MaxClock
  /\ now' = now + 1
  /\ UNCHANGED <<db, session, pending, uploads, apiKey, resp, client>>

\* The completion call of request i has taken at least a millisecond.
RoundTripDone(i) ==
  /\ i \in 1..Len(pending)
  /\ LET sentAt == pending[i].messages[Len(pending[i].messages)].id
     IN now > sentAt

NextChat ==
  \/ Tick
  \/ \E s \in Sessions : Login(s, 1)
  \/ \E s \in Sessions : GetMessages(s)
  \/ \E s \in Sessions, content \in Contents \cup {NoContent} : PostMessages(s, content)
  \/ \E i \in InFlight, outcome \in {"text", "apiError"} :
       RoundTripDone(i) /\ PostMessagesReturn(i, outcome)
  \/ \E s \in Sessions : ResetMessages(s)

\* The message routes as two browsers of one user drive them, while the
\* clock advances.
SpecChat == Init /\ [][NextChat]_vars

\* ------------------------------------------------- the storage layer alone
\* The methods of DatabaseStorage called in any order by any caller.
RowCount(d) ==
  Len(d.users) + Len(d.projects) + Len(d.deployments) + Len(d.environments)
    + Len(d.integrations) + Len(d.activities) + Len(d.approvals) + Len(d.logs)

\* The method returned (or threw) r.
Returned(method, args, r) ==
  /\ db' = r.db
  /\ resp' = [NoResponse EXCEPT !.route = method, !.by = "DatabaseStorage",
                                !.input = args, !.error = r.error]
  /\ UNCHANGED <<session, pending, uploads, now, apiKey, client>>

Inserting == RowCount(db) < RowCount(SeedDb) + MaxInserts

UserValues == { [username |-> "carol", password |-> "hash"], [username |-> "dave"] }

CallCreateUser ==
  \E v \in UserValues :
    Inserting /\ Returned("storage.createUser", v, createUser(db, v, now))

CallCreateProject ==
  \E body \in ProjectBodies :
    LET v == Spread(body, [userId |-> 1])
    IN Inserting /\ Returned("storage.createProject", v, createProject(db, v, now))

CallCreateDeployment ==
  \E body \in DeploymentBodies :
    Inserting /\ Returned("storage.createDeployment", body, createDeployment(db, body, now))

CallCreateIntegration ==
  \E body \in IntegrationBodies :
    Inserting /\ Returned("storage.createIntegration", body, createIntegration(db, body, now))

CallCreateActivity ==
  LET v == [type |-> "project_created", description |-> "Project was created",
            projectId |-> 1]
  IN Inserting /\ Returned("storage.createActivity", v, createActivity(db, v, now))

CallCreateLog ==
  LET v == [type |-> "info", message |-> "started"]
  IN Inserting /\ Returned("storage.createLog", v, createLog(db, v, now))

CallUpdateEnvironment ==
  \E id \in {1, 9}, data \in EnvironmentBodies :
    Returned("storage.updateEnvironment", [id |-> id, data |-> data],
             updateEnvironment(db, id, data))

CallUpdateApprovalStatus ==
  \E id \in {1, 9}, status \in {"approved", "archived", Undefined} :
    Returned("storage.updateApprovalStatus", [id |-> id, status |-> status],
             updateApprovalStatus(db, id, status))

NextStorage ==
  \/ CallCreateUser
  \/ CallCreateProject
  \/ CallCreateDeployment
  \/ CallCreateIntegration
  \/ CallCreateActivity
  \/ CallCreateLog
  \/ CallUpdateEnvironment
  \/ CallUpdateApprovalStatus

SpecStorage == Init /\ [][NextStorage]_vars

\* ------------------------------------------------------- the file routes
\* The names files are uploaded with: without a hyphen, with one, with
\* several, with a hyphen first, last before the extension, and doubled;
\* extensions in lower and in upper case, with and without a language.
FileNames ==
  { <<"a", ".", "j", "s">>,
    <<"a", "-", "b", ".", "J", "S">>,
    <<"a", "-", "b", "-", "c", ".", "m", "d">>,
    <<"-", "a", ".", "t", "x", "t">>,
    <<"a", "-", "-", "b", "-", ".", "j", "s">>,
    <<"x", ".", "e", "x", "e">> }

NamedParts == {[present |-> TRUE, originalname |-> n, size |-> 1] : n \in FileNames}

\* The uploads directory has room for one more file.
Room == Cardinality(uploads) < MaxFiles

NextFiles ==
  \/ Tick
  \/ \E s \in Browsers : Login(s, 1)
  \/ \E s \in Browsers, part \in NamedParts \cup {NoFile}, rnd \in Random :
       Room /\ FilesUpload(s, part, rnd)
  \/ \E s \in Browsers, fsOk \in BOOLEAN : GetFiles(s, fsOk)
  \/ \E s \in Browsers, part \in NamedParts, rnd \in Random, outcome \in Outcomes :
       Room /\ FilesAnalyze(s, part, rnd, outcome)

\* The file routes as one browser drives them with files of many names,
\* while the clock advances.
SpecFiles == Init /\ [][NextFiles]_vars

\* ------------------------------------------------------------ the browser
\* The locations the browser visits: the routes of App and one that no
\* route names.
Paths ==
  {"/", "/auth", "/chat", "/projects", "/deployments", "/integrations",
   "/logs", "/approvals", "/settings", "/missing"}

\* <ProtectedRoute path component/> of the logged-in Switch: the component
\* each path shows, NotFound for a path no route names.
ProtectedRoute(path) ==
  CASE path = "/" -> "Dashboard"
    [] path = "/chat" -> "Chat"
    [] path = "/projects" -> "Projects"
    [] path = "/deployments" -> "Deployments"
    [] path = "/integrations" -> "Integrations"
    [] path = "/logs" -> "Logs"
    [] path = "/approvals" -> "Approvals"
    [] path = "/settings" -> "Settings"
    [] OTHER -> "NotFound"

\* AuthRedirect(): navigate("/auth"), and nothing is shown.
AuthRedirect == [page |-> "null", location |-> "/auth"]

\* App(): what one render shows and where it leaves the location.
App(user, location) ==
  IF user # NullId
  THEN IF location = "/auth"
       THEN AuthRedirect
       ELSE [page |-> ProtectedRoute(location), location |-> location]
  ELSE IF location = "/auth"
       THEN [page |-> "AuthPage", location |-> location]
       ELSE AuthRedirect

\* React renders App after the user or the location changed; a
\* navigation made while rendering asks for one more render when it moved
\* the location.
Render ==
  /\ client.stale
  /\ LET shown == App(client.user, client.location)
     IN client' = [client EXCEPT !.page = shown.page,
                                 !.location = shown.location,
                                 !.stale = (shown.location # client.location)]
  /\ UNCHANGED <<db, session, pending, uploads, now, apiKey, resp>>

\* The person at the browser opens a location, the address bar or a link;
\* the event is handled once the render in progress has finished.
Navigate(path) ==
  /\ ~client.stale
  /\ path # client.location
  /\ client' = [client EXCEPT !.location = path, !.stale = TRUE]
  /\ UNCHANGED <<db, session, pending, uploads, now, apiKey, resp>>

\* useAuth(): the user becomes set when a login has been answered, and null
\* when a logout has.
UseAuthLogin(u) ==
  /\ ~client.stale
  /\ client.user = NullId
  /\ client' = [client EXCEPT !.user = u, !.stale = TRUE]
  /\ UNCHANGED <<db, session, pending, uploads, now, apiKey, resp>>

UseAuthLogout ==
  /\ ~client.stale
  /\ client.user # NullId
  /\ client' = [client EXCEPT !.user = NullId, !.stale = TRUE]
  /\ UNCHANGED <<db, session, pending, uploads, now, apiKey, resp>>

NextClient ==
  \/ Render
  \/ \E path \in Paths : Navigate(path)
  \/ \E u \in Ids(SeedUsers) : UseAuthLogin(u)
  \/ UseAuthLogout

\* The browser of one person; React always gets to render a change.
SpecClient == Init /\ [][NextClient]_vars /\ WF_vars(Render)

\* =================================================================== claims
RegisteredRoutes ==
  {"GET /api/projects", "GET /api/projects/recent", "GET /api/projects/:id",
   "POST /api/projects", "GET /api/deployments", "POST /api/deployments",
   "GET /api/environments", "GET /api/environments/:id", "PATCH /api/environments/:id",
   "GET /api/integrations", "POST /api/integrations", "GET /api/activities",
   "GET /api/approvals", "GET /api/approvals/count", "PATCH /api/approvals/:id/status",
   "GET /api/logs", "GET /api/messages", "POST /api/messages", "POST /api/messages/reset",
   "POST /api/ai/chat", "POST /api/ai/code", "POST /api/ai/analyze",
   "POST /api/ai/document", "POST /api/ai/requirements",
   "POST /api/files/upload", "GET /api/files", "POST /api/files/analyze"}

\* C1: a request to a registered route whose session is not authenticated is
\* answered 401 by ensureAuthenticated, and handling it makes no storage
\* call, no completion call and leaves the tables, the sessions, the
\* requests in flight and the uploads directory as they were.
C1_UnauthenticatedIsRejected ==
  [][(resp'.status # 0 /\ resp'.route \in RegisteredRoutes /\ ~resp'.authed)
       => /\ resp'.status = 401
          /\ resp'.by = "ensureAuthenticated"
          /\ resp'.apiCalls = 0
          /\ resp'.storageCalls = <<>>
          /\ UNCHANGED <<db, session, pending, uploads>>]_vars

\* An acceptable file was posted to the upload route without a login and
\* was answered 401.
C1_Witness ==
  /\ resp.route = "POST /api/files/upload"
  /\ resp.status = 401
  /\ ~resp.authed
  /\ resp.input.part.present
  /\ multerSingle(resp.input.part) = "stored"
  /\ uploads = {}

C3_HistoryForwarded ==
  [][Len(pending') = Len(pending) + 1
       => LET call == pending'[Len(pending')]
              history == IF session[call.sess].hasMessages
                           THEN session[call.sess].messages ELSE <<>>
              n == Len(history)
          IN /\ Len(call.messages) = n + 1
             /\ SubSeq(call.messages, 1, n) = history
             /\ call.messages[n + 1].role = "user"
             /\ call.messages[n + 1].content = call.content
             /\ Len(call.sent) = n + 2
             /\ call.sent[1] = SystemPrompt
             /\ \A i \in 1..n :
                  call.sent[i + 1] = [role |-> history[i].role, content |-> history[i].content]
             /\ call.sent[n + 2] = [role |-> "user", content |-> call.content]]_vars

\* A request in flight whose session already held a completed turn: the
\* list sent is the prompt, the earlier user message, the assistant's reply
\* and the new user message.
C3_Witness ==
  \E i \in 1..Len(pending) :
    /\ Len(pending[i].sent) = 4
    /\ pending[i].sent[2].role = "user"
    /\ pending[i].sent[3].role = "assistant"
    /\ pending[i].sent[3].content # pending[i].sent[4].content

CompletionRoutes ==
  {"POST /api/messages", "POST /api/ai/chat", "POST /api/ai/code", "POST /api/ai/analyze",
   "POST /api/ai/document", "POST /api/ai/requirements", "POST /api/files/analyze"}

\* The request got as far as the completion call.
ReachedCompletion(r) ==
  CASE r.route = "POST /api/messages" -> r.input.content # NoContent
    [] r.route = "POST /api/files/analyze" -> multerSingle(r.input.part) = "stored"
    [] OTHER -> r.input.bodyOk

\* The completion call of the request failed: no API key, or the API failed.
CompletionFailed(r) ==
  /\ r.authed
  /\ r.route \in CompletionRoutes
  /\ ReachedCompletion(r)
  /\ (~apiKey \/ r.input.outcome = "apiError")

GenericMessages ==
  {"Error processing message", "Error from OpenAI API", "Error analyzing file"}

\* C4: a request whose completion call failed is answered by the route
\* itself with 500, a generic message and the underlying error text.
C4_CompletionFailureAnswered500 ==
  CompletionFailed(resp)
    => /\ resp.by = "route"
       /\ resp.status = 500
       /\ resp.message \in GenericMessages
       /\ resp.error # <<>>
       /\ resp.error[Len(resp.error)] \in {"OpenAI API key not configured", "upstream failure"}

\* The completion API failed while a stored file was being analysed.
C4_Witness ==
  /\ resp.route = "POST /api/files/analyze"
  /\ CompletionFailed(resp)
  /\ apiKey
  /\ resp.status = 500

DataRoutes ==
  {"GET /api/projects", "GET /api/projects/recent", "GET /api/projects/:id",
   "POST /api/projects", "GET /api/deployments", "POST /api/deployments",
   "GET /api/environments", "GET /api/environments/:id", "PATCH /api/environments/:id",
   "GET /api/integrations", "POST /api/integrations", "GET /api/activities",
   "GET /api/approvals", "GET /api/approvals/count", "PATCH /api/approvals/:id/status",
   "GET /api/logs"}

\* The storage call the request made last failed: the method does not exist
\* on the object `storage` denotes, or the query failed.
StorageFailed(r) ==
  /\ r.authed
  /\ r.route \in RegisteredRoutes
  /\ r.storageCalls # <<>>
  /\ LET n == Len(r.storageCalls)
     IN \/ r.storageCalls[n] \notin MethodsOf(storage)
        \/ (r.route \in DataRoutes /\ ~r.input.dbOk[n])

NoRepeat(calls) ==
  \A i, j \in 1..Len(calls) : calls[i] = calls[j] => i = j

\* C6: a request makes at most one call to the completion API and calls no
\* storage method twice; a request in flight has made one completion call;
\* after a failed completion call nothing further is called, and a failed
\* storage call is the last call of its request.
C6_NoRetry ==
  /\ resp.apiCalls <= 1
  /\ NoRepeat(resp.storageCalls)
  /\ \A i \in 1..Len(pending) : pending[i].apiCalls = 1
  /\ CompletionFailed(resp) => resp.storageCalls = <<>>
  /\ StorageFailed(resp) => Len(resp.storageCalls) = 1

\* A chat turn whose completion call failed after one call.
C6_Witness ==
  /\ resp.route = "POST /api/messages"
  /\ CompletionFailed(resp)
  /\ apiKey
  /\ resp.apiCalls = 1
  /\ resp.status = 500

FileRoutes == {"POST /api/files/upload", "POST /api/files/analyze"}

\* C7: a step of the upload or analyze route adds a file to the uploads
\* directory only if its lower-cased extension is allowed and its size is at
\* most the limit, and names it <timestamp>-<random>-<original name>; for a
\* file that is refused the directory and the activities are unchanged and
\* the response is no success.
C7_OnlyAllowedFilesStored ==
  [][(resp'.route \in FileRoutes /\ resp'.authed /\ resp'.input.part.present)
       => LET part == resp'.input.part
              allowed == /\ toLowerCase(extname(part.originalname)) \in allowedTypes
                         /\ part.size <= FileSizeLimit
          IN /\ \A f \in uploads' \ uploads :
                  /\ allowed
                  /\ f.filename = numToString(now) \o <<"-">> \o numToString(resp'.input.rnd)
                                    \o <<"-">> \o part.originalname
             /\ ~allowed => /\ uploads' = uploads
                            /\ db'.activities = db.activities
                            /\ resp'.status \notin {200, 201}]_vars

\* An allowed file with an upper-case extension is stored, and the upload
\* of a file with another extension has just been refused.
C7_Witness ==
  /\ \E f \in uploads : f.originalname = <<"a", "-", "b", ".", "J", "S">>
  /\ resp.route = "POST /api/files/upload"
  /\ resp.authed
  /\ resp.input.part.present
  /\ resp.input.part.originalname = <<"x", ".", "e", "x", "e">>
  /\ resp.status \notin {200, 201}

ProjectReads ==
  {"GET /api/projects", "GET /api/projects/recent", "GET /api/projects/:id"}

\* The projects in the body of a response of a project read.
ProjectsIn(r) ==
  IF r.route = "GET /api/projects/recent"
    THEN {r.body[i] : i \in 1..Len(r.body)}
    ELSE r.body

MessageRoutes == {"GET /api/messages", "POST /api/messages", "POST /api/messages/reset"}

\* req.session.messages || [] of session s
History(s) == IF session[s].hasMessages THEN session[s].messages ELSE <<>>

\* C11: a step changes the messages of a session only in answering a POST
\* /api/messages or a reset of that session; GET /api/messages returns the
\* messages of the requesting session; the list sent to the completion API
\* is built from the messages of the requesting session alone.
C11_HistoryPerSession ==
  [][/\ \A t \in Sessions :
          (session'[t].messages # session[t].messages
             \/ session'[t].hasMessages # session[t].hasMessages)
            => /\ resp'.sess = t
               /\ resp'.route \in {"POST /api/messages", "POST /api/messages/reset"}
     /\ (resp'.route = "GET /api/messages" /\ resp'.status = 200)
          => resp'.body = History(resp'.sess)
     /\ Len(pending') = Len(pending) + 1
          => LET call == pending'[Len(pending')]
             IN call.sent = <<SystemPrompt>>
                              \o ForwardedHistory(History(call.sess))
                              \o <<[role |-> "user", content |-> call.content]>>]_vars

\* Session sB holds a conversation and session sA, which held one too, has
\* just been reset.
C11_Witness ==
  /\ resp.route = "POST /api/messages/reset"
  /\ resp.sess = "sA"
  /\ resp.status = 200
  /\ session["sA"].hasMessages
  /\ session["sA"].messages = <<>>
  /\ Len(session["sB"].messages) = 2

\* The table a create route inserts into.
CreatedTable(route) ==
  CASE route = "POST /api/projects" -> "projects"
    [] route = "POST /api/deployments" -> "deployments"
    [] route = "POST /api/integrations" -> "integrations"

\* An authenticated request to a create route whose body carries the
\* required columns, with every query answered by the database.
WellFormedCreate(r) ==
  /\ r.route \in {"POST /api/projects", "POST /api/deployments", "POST /api/integrations"}
  /\ r.authed
  /\ NotNullColumns(CreatedTable(r.route)) \subseteq DOMAIN r.input.body
  /\ \A i \in 1..Len(r.input.dbOk) : r.input.dbOk[i]

C13_LoggedInAtAuthRedirectsHome ==
  (client.user # NullId /\ client.location = "/auth")
    ~> (client.location = "/" /\ client.page = "Dashboard")

C16_EmptyContentRejected ==
  [][(/\ resp'.route = "POST /api/messages"
      /\ resp'.authed
      /\ "outcome" \notin DOMAIN resp'.input
      /\ resp'.input.content = NoContent)
       => /\ resp'.status = 400
          /\ resp'.message = "Message content is required"
          /\ resp'.apiCalls = 0
          /\ resp'.storageCalls = <<>>
          /\ session' = session
          /\ pending' = pending
          /\ db' = db]_vars

\* An empty message was rejected for a session that never chatted, and the
\* session still has no message list.
C16_Witness ==
  /\ resp.route = "POST /api/messages"
  /\ resp.status = 400
  /\ resp.input.content = NoContent
  /\ ~session[resp.sess].hasMessages

\* C17: when the completion call of a POST /api/messages fails, the history
\* stored for the session ends with the user message of that request, holds
\* no assistant message the request's copy of the history did not hold, and
\* no activity is recorded; a POST /api/messages of the session received
\* next forwards that unanswered user message before its own.  When the
\* completion succeeds and the answer is not 201, the answer is 500 and the
\* stored history ends with the user message and the assistant message.
C17_FailedTurnKeepsUserMessage ==
  [][/\ (resp'.route = "POST /api/messages" /\ CompletionFailed(resp'))
          => LET h == session'[resp'.sess].messages
             IN /\ session'[resp'.sess].hasMessages
                /\ Len(h) >= 1
                /\ h[Len(h)].role = "user"
                /\ h[Len(h)].content = resp'.input.content
                /\ Len(pending') < Len(pending)
                     => \E i \in 1..Len(pending) : pending[i].messages = h
                /\ db' = db
     /\ (/\ resp.route = "POST /api/messages" /\ CompletionFailed(resp)
         /\ Len(pending') = Len(pending) + 1
         /\ pending'[Len(pending')].sess = resp.sess)
          => LET sent == pending'[Len(pending')].sent
                 n == Len(sent)
             IN /\ n >= 3
                /\ sent[n - 1] = [role |-> "user", content |-> resp.input.content]
                /\ sent[n].role = "user"
     /\ (/\ resp'.route = "POST /api/messages"
         /\ "outcome" \in DOMAIN resp'.input
         /\ resp'.input.outcome = "text"
         /\ resp'.status # 201)
          => LET h == session'[resp'.sess].messages
                 n == Len(h)
             IN /\ resp'.status = 500
                /\ resp'.message = "Error processing message"
                /\ n >= 2
                /\ h[n - 1].role = "user" /\ h[n - 1].content = resp'.input.content
                /\ h[n].role = "assistant" /\ h[n].content = resp'.input.outcome]_vars

\* A turn whose completion failed left its user message behind; the next
\* turn was answered by the completion API and then with 500, and the
\* history holds the two user messages and the assistant message.
C17_Witness ==
  /\ resp.route = "POST /api/messages"
  /\ "outcome" \in DOMAIN resp.input
  /\ resp.input.outcome = "text"
  /\ resp.status = 500
  /\ LET h == session[resp.sess].messages
     IN /\ Len(h) = 3
        /\ h[1].role = "user" /\ h[2].role = "user" /\ h[3].role = "assistant"

\* C18: once POST /api/messages/reset has been answered 200, the session's
\* history is empty and stays empty in the next step unless that step
\* receives a new POST /api/messages of the session, and such a POST
\* forwards only the system prompt and its own user message; GET
\* /api/messages leaves the session store as it is and returns the stored
\* history, the empty list for a session without one.
C18_ResetClearsConversation ==
  [][/\ (resp.route = "POST /api/messages/reset" /\ resp.status = 200)
          => LET s == resp.sess
                 received == /\ Len(pending') = Len(pending) + 1
                             /\ pending'[Len(pending')].sess = s
                 refused == /\ resp'.route = "POST /api/messages"
                            /\ resp'.sess = s
                            /\ "outcome" \notin DOMAIN resp'.input
             IN /\ History(s) = <<>>
                /\ ~received /\ ~refused => session'[s].messages = <<>>
                /\ received => Len(pending'[Len(pending')].sent) = 2
     /\ (resp'.route = "GET /api/messages" /\ resp'.status = 200)
          => /\ session' = session
             /\ resp'.body = History(resp'.sess)]_vars

\* C19: within the history stored for a session the message ids are
\* pairwise distinct.
C19_MessageIdsDistinct ==
  \A s \in Sessions :
    \A i, j \in 1..Len(session[s].messages) :
      session[s].messages[i].id = session[s].messages[j].id => i = j

C22_ApprovalStatusUpdate ==
  [][(resp'.route = "PATCH /api/approvals/:id/status" /\ resp'.authed)
       => LET id == resp'.input.id
              body == resp'.input.body
              found == \E i \in 1..Len(db.approvals) : db.approvals[i].id = id
          IN IF ~found
               THEN /\ (resp'.input.dbOk[1] /\ "status" \in DOMAIN body)
                         => \E k \in 1..Len(resp'.error) :
                              resp'.error[k] = "Approval not found"
                    /\ db'.approvals = db.approvals
                    /\ db'.activities = db.activities
               ELSE (/\ "status" \in DOMAIN body
                     /\ body.status \in ApprovalStatuses
                     /\ \A k \in 1..Len(resp'.input.dbOk) : resp'.input.dbOk[k])
                      => /\ Len(db'.approvals) = Len(db.approvals)
                         /\ \A i \in 1..Len(db.approvals) :
                              db'.approvals[i] =
                                IF db.approvals[i].id = id
                                  THEN [db.approvals[i] EXCEPT !.status = body.status]
                                  ELSE db.approvals[i]]_vars

\* C23: GET /api/files reports every stored file under its stored name
\* with, as originalname, exactly the name it was uploaded with, hyphens
\* included.
C23_UploadNameRoundTrip ==
  (resp.route = "GET /api/files" /\ resp.status = 200)
    => \A f \in uploads :
         \E e \in resp.body : /\ e.filename = f.filename
                              /\ e.originalname = f.originalname

\* A file whose name holds several hyphens was stored and is listed.
C23_Witness ==
  /\ resp.route = "GET /api/files"
  /\ resp.status = 200
  /\ \E e \in resp.body :
       /\ Cardinality({i \in 1..Len(e.originalname) : e.originalname[i] = "-"}) >= 2
       /\ \E f \in uploads : f.filename = e.filename

\* C24: for a file that POST /api/files/analyze accepted and stored, the
\* language computed from its name is the language-map entry of its
\* extension compared without regard to case, as the upload filter compares
\* it (js and JS both give javascript), and the extension itself when the
\* map has no entry for it.
C24_LanguageOfExtension ==
  (/\ resp.route = "POST /api/files/analyze"
   /\ resp.authed
   /\ multerSingle(resp.input.part) = "stored")
    => LET name == resp.input.part.originalname
           key == slice(toLowerCase(extname(name)), 1)
           language == languageOf(name)
       IN IF languageMap(key) # Undefined
            THEN language.mapped /\ language.name = languageMap(key)
            ELSE ~language.mapped /\ language.ext = slice(extname(name), 1)

\* C25: while no API key is configured, no request to a route that uses
\* the completion API makes an outbound call or is answered with success,
\* and every such request that gets as far as the completion call is
\* answered 500 with an error text that ends in 'OpenAI API key not
\* configured'.
C25_MissingKeyNeverSucceeds ==
  (~apiKey /\ resp.route \in CompletionRoutes)
    => /\ resp.apiCalls = 0
       /\ resp.status \notin {200, 201}
       /\ (resp.authed /\ ReachedCompletion(resp))
            => /\ resp.status = 500
               /\ resp.error # <<>>
               /\ resp.error[Len(resp.error)] = "OpenAI API key not configured"

\* Without a key, a requirements request failed inside the helper, which
\* put its own prefix before the error of createChatCompletion.
C25_Witness ==
  /\ ~apiKey
  /\ resp.route = "POST /api/ai/requirements"
  /\ resp.status = 500
  /\ resp.apiCalls = 0
  /\ Len(resp.error) = 2
  /\ resp.error[2] = "OpenAI API key not configured"

====
